---- MODULE Spec2Model ----
(***************************************************************************)
(* Model of the /analyze handler of the agentic scam honeypot (main.py):   *)
(* the conversation table, the oracle call, the rule-based fallback, the   *)
(* persona scripts and the catch-all Safe Mode answer.                     *)
(*                                                                         *)
(* Python values are represented as follows.                               *)
(*   a value held in a dict is a record with one field, named after its   *)
(*   Python type: PyText (a str kept as a sequence of characters, for the   *)
(*   text the regular expressions scan), PyStr (any other str), PyFStr (a    *)
(*   formatted str, as the sequence of its parts), PyBool, PyInt,         *)
(*   PyFloat (in tenths: 0.7 is 7), PyList, PyDict and PyNone;            *)
(*   a dict is a function from its keys to its values.                    *)
(***************************************************************************)
EXTENDS Integers, Sequences, FiniteSets, TLC

(***************************************************************************)
(* Bounds of the model.                                                    *)
(***************************************************************************)
\* number of requests of a behaviour whose requests may overlap
MaxRequests == 2
\* number of requests of a behaviour whose requests are handled one by one
MaxSeqRequests == 4

(***************************************************************************)
(* Characters and character classes of the regular expressions.            *)
(***************************************************************************)
LowerSeq == <<"a","b","c","d","e","f","g","h","i","j","k","l","m",
              "n","o","p","q","r","s","t","u","v","w","x","y","z">>
UpperSeq == <<"A","B","C","D","E","F","G","H","I","J","K","L","M",
              "N","O","P","Q","R","S","T","U","V","W","X","Y","Z">>
Lower == { LowerSeq[i] : i \in 1..26 }
Upper == { UpperSeq[i] : i \in 1..26 }
Digits == {"0","1","2","3","4","5","6","7","8","9"}
\* \w
WordChars == Lower \cup Upper \cup Digits \cup {"_"}
\* \s
SpaceChars == {" ", "\n", "\t"}
\* every character a message of the model is written with
Chars == WordChars \cup SpaceChars \cup {".", "-", "@", ":", "/", "+"}
\* \S
NonSpaceChars == Chars \ SpaceChars

\* str.upper() on one character
UpperChar(c) ==
    IF c \in Lower THEN UpperSeq[CHOOSE i \in 1..26 : LowerSeq[i] = c] ELSE c

\* message.upper()
upper(message) == [i \in 1..Len(message) |-> UpperChar(message[i])]

IsWordAt(s, i) == i \in 1..Len(s) /\ s[i] \in WordChars

\* \b just before position p (1-based; p = Len(s)+1 is the end of the text)
Boundary(s, p) == IsWordAt(s, p - 1) # IsWordAt(s, p)

\* length of the longest run of characters of class cls starting at p
RECURSIVE RunLen(_, _, _)
RunLen(s, p, cls) ==
    IF p \in 1..Len(s) /\ s[p] \in cls THEN 1 + RunLen(s, p + 1, cls) ELSE 0

\* the literal lit occurs in s at position p
LitAt(s, p, lit) ==
    /\ p >= 1
    /\ p + Len(lit) - 1 <= Len(s)
    /\ \A i \in 1..Len(lit) : s[p + i - 1] = lit[i]

MaxOf(S) == CHOOSE x \in S : \A y \in S : y <= x

(***************************************************************************)
(* One match attempt of each pattern at position p: the position just      *)
(* after the match, or 0 when the pattern does not match at p.  Greedy     *)
(* quantifiers with backtracking, as in Python's re.                       *)
(***************************************************************************)
\* \b[\w\.-]+@[\w-]+\b
MatchUpi(s, p) ==
    LET n  == RunLen(s, p, WordChars \cup {".", "-"})
        q  == p + n + 1
        d  == RunLen(s, q, WordChars \cup {"-"})
        ks == { k \in 1..d : Boundary(s, q + k) }
    IN  IF /\ Boundary(s, p)
           /\ n >= 1
           /\ LitAt(s, p + n, <<"@">>)
           /\ ks # {}
        THEN q + MaxOf(ks)
        ELSE 0

\* (?:\+91)?[6-9]\d{9}
PhoneBodyAt(s, p) ==
    /\ p \in 1..Len(s)
    /\ s[p] \in {"6","7","8","9"}
    /\ RunLen(s, p + 1, Digits) >= 9

MatchPhone(s, p) ==
    IF LitAt(s, p, <<"+","9","1">>) /\ PhoneBodyAt(s, p + 3) THEN p + 13
    ELSE IF PhoneBodyAt(s, p) THEN p + 10
    ELSE 0

\* https?://\S+
MatchLink(s, p) ==
    LET q == IF LitAt(s, p, <<"h","t","t","p","s">>) THEN p + 5 ELSE p + 4
        n == RunLen(s, q + 3, NonSpaceChars)
    IN  IF /\ LitAt(s, p, <<"h","t","t","p">>)
           /\ LitAt(s, q, <<":","/","/">>)
           /\ n >= 1
        THEN q + 3 + n
        ELSE 0

\* \b\d{10,18}\b
MatchAccount(s, p) ==
    LET n  == RunLen(s, p, Digits)
        ks == { k \in 10..18 : k <= n /\ Boundary(s, p + k) }
    IN  IF Boundary(s, p) /\ ks # {} THEN p + MaxOf(ks) ELSE 0

\* \b[A-Z]{4}0[A-Z0-9]{6}\b
MatchIfsc(s, p) ==
    IF /\ Boundary(s, p)
       /\ p + 10 <= Len(s)
       /\ \A i \in 0..3 : s[p + i] \in Upper
       /\ s[p + 4] = "0"
       /\ \A i \in 5..10 : s[p + i] \in Upper \cup Digits
       /\ Boundary(s, p + 11)
    THEN p + 11
    ELSE 0

MatchAt(pat, s, p) ==
    CASE pat = "upi_id"        -> MatchUpi(s, p)
      [] pat = "phone_number"  -> MatchPhone(s, p)
      [] pat = "phishing_link" -> MatchLink(s, p)
      [] pat = "bank_account"  -> MatchAccount(s, p)
      [] pat = "ifsc"          -> MatchIfsc(s, p)

\* re.findall: the non-overlapping matches, left to right
RECURSIVE FindAllFrom(_, _, _)
FindAllFrom(pat, s, p) ==
    IF p > Len(s) THEN << >>
    ELSE LET e == MatchAt(pat, s, p)
         IN  IF e # 0
             THEN <<SubSeq(s, p, e - 1)>> \o FindAllFrom(pat, s, e)
             ELSE FindAllFrom(pat, s, p + 1)

findall(pat, s) == FindAllFrom(pat, s, 1)

(***************************************************************************)
(* Python values.                                                          *)
(***************************************************************************)
PyNone == [none |-> TRUE]
PyBool(b) == [bool |-> b]
PyInt(n) == [int |-> n]
PyFloat(n) == [tenths |-> n]
PyStr(s) == [str |-> s]
PyText(chars) == [text |-> chars]
PyFStr(parts) == [fstr |-> parts]
PyList(q) == [list |-> q]
PyDict(f) == [dict |-> f]

IsA(v, type) == type \in DOMAIN v

\* the empty dict {}
EmptyDict == << >>

\* bool(v)
Truthy(v) ==
    CASE IsA(v, "none")   -> FALSE
      [] IsA(v, "bool")   -> v.bool
      [] IsA(v, "int")    -> v.int # 0
      [] IsA(v, "tenths") -> v.tenths # 0
      [] IsA(v, "str")    -> v.str # ""
      [] IsA(v, "text")   -> Len(v.text) > 0
      [] IsA(v, "fstr")   -> TRUE
      [] IsA(v, "list")   -> Len(v.list) > 0
      [] IsA(v, "dict")   -> DOMAIN v.dict # {}

\* hash(v) raises TypeError
Unhashable(v) == IsA(v, "list") \/ IsA(v, "dict")

\* d.get(key, default)
get(d, key, default) == IF key \in DOMAIN d THEN d[key] ELSE default

\* d[key] = value
setitem(d, key, value) == (key :> value) @@ d

\* the outcome of a call: it returns a value or raises an exception
Return(v) == [returned |-> v]
Raise(e) == [raised |-> e]
Raised(r) == "raised" \in DOMAIN r

(***************************************************************************)
(* Helpers of main.py.                                                     *)
(***************************************************************************)
\* the dict of the five lists of matches
regex_extract(message) ==
    [ upi_id        |-> PyList(findall("upi_id", message)),
      phone_number  |-> PyList(findall("phone_number", message)),
      phishing_link |-> PyList(findall("phishing_link", message)),
      bank_account  |-> PyList(findall("bank_account", message)),
      ifsc          |-> PyList(findall("ifsc", upper(message))) ]

PERSONAS ==
    ("Bank Fraud" :>
        << "Why is my account blocked? I use it daily.",
           "Which UPI ID should I send the money to?",
           "The app is asking for details again. Can you help?" >>) @@
      ("UPI Fraud" :>
        << "I am confused about UPI. Can you explain?",
           "Please send the correct UPI ID.",
           "It says transaction failed. What should I do?" >>) @@
      ("Job Scam" :>
        << "Is there really no interview?",
           "How much is the registration fee?",
           "Can I pay through UPI?" >>) @@
      ("Lottery Scam" :>
        << "I don't remember entering any lottery!",
           "What is the processing fee?",
           "How will I receive the prize?" >>) @@
      ("KYC Scam" :>
        << "My KYC is pending? I was not informed.",
           "Is this official bank message?",
           "Which details should I update?" >>) @@
      ("Phishing" :>
        << "The link is not opening properly.",
           "Is this the official website?",
           "Should I login using my app instead?" >>)

\* PERSONAS.get(scam_type, []) of a hashable scam_type
PersonaScript(scam_type) ==
    IF IsA(scam_type, "str") /\ scam_type.str \in DOMAIN PERSONAS
    THEN PERSONAS[scam_type.str]
    ELSE << >>

\* get_honeypot with the index taken one line too far
get_honeypot_shifted(scam_type, stage) ==
    IF Unhashable(scam_type)
    THEN Raise([type |-> "TypeError", text |-> "unhashable type"])
    ELSE LET responses == PersonaScript(scam_type)
         IN  IF Len(responses) = 0
             THEN Return(PyStr("Can you explain this again?"))
             ELSE Return(PyStr(responses[((stage + 1) % Len(responses)) + 1]))

\* get_honeypot starting every script again at its first line
get_honeypot_restart(scam_type, stage) ==
    IF Unhashable(scam_type)
    THEN Raise([type |-> "TypeError", text |-> "unhashable type"])
    ELSE LET responses == PersonaScript(scam_type)
         IN  IF Len(responses) = 0
             THEN Return(PyStr("Can you explain this again?"))
             ELSE Return(PyStr(responses[1]))

\* get_honeypot(scam_type, stage): the line, or the TypeError of a dict
\* lookup with an unhashable key
get_honeypot(scam_type, stage) ==
    IF Unhashable(scam_type)
    THEN Raise([type |-> "TypeError", text |-> "unhashable type"])
    ELSE LET responses == PersonaScript(scam_type)
         IN  IF Len(responses) = 0
             THEN Return(PyStr("Can you explain this again?"))
             ELSE Return(PyStr(responses[(stage % Len(responses)) + 1]))

(***************************************************************************)
(* The oracle's reply text and safe_json.  A text is a sequence of tokens: *)
(* an opening brace, a closing brace, a "key": value member of an object   *)
(* (its value a Python value, a nested object included), or prose (a       *)
(* markdown fence, an explanation: anything json.loads rejects).           *)
(***************************************************************************)
LBrace == [tok |-> "{"]
RBrace == [tok |-> "}"]
Prose == [tok |-> "prose"]
Member(k, v) == [tok |-> "member", key |-> k, value |-> v]

MinOf(S) == CHOOSE x \in S : \A y \in S : x <= y

\* text.find(tok): 0-based, -1 when absent
find(text, tok) ==
    LET at == { i \in 1..Len(text) : text[i] = tok }
    IN  IF at = {} THEN -1 ELSE MinOf(at) - 1

\* text.rfind(tok): 0-based, -1 when absent
rfind(text, tok) ==
    LET at == { i \in 1..Len(text) : text[i] = tok }
    IN  IF at = {} THEN -1 ELSE MaxOf(at) - 1

\* text[start:stop], a negative index counting from the end
slice(text, start, stop) ==
    LET n == Len(text)
        clamp(i) == IF i < 0 THEN (IF i + n < 0 THEN 0 ELSE i + n)
                    ELSE (IF i > n THEN n ELSE i)
        lo == clamp(start)
        hi == clamp(stop)
    IN  IF lo >= hi THEN << >> ELSE SubSeq(text, lo + 1, hi)

\* the dict of a sequence of members; a repeated key keeps its last value
RECURSIVE MembersDict(_)
MembersDict(members) ==
    IF Len(members) = 0 THEN EmptyDict
    ELSE LET m == members[Len(members)]
         IN  setitem(MembersDict(SubSeq(members, 1, Len(members) - 1)),
                     m.key, m.value)

\* json.loads of a text that is known to begin at a brace or to be empty
json_loads(text) ==
    IF /\ Len(text) >= 2
       /\ text[1] = LBrace
       /\ text[Len(text)] = RBrace
       /\ \A i \in 2..(Len(text) - 1) : text[i].tok = "member"
    THEN Return(PyDict(MembersDict(SubSeq(text, 2, Len(text) - 1))))
    ELSE Raise([type |-> "JSONDecodeError", text |-> "Expecting value"])

safe_json(text) ==
    LET start == find(text, LBrace)
        end == rfind(text, RBrace) + 1
        r == json_loads(slice(text, start, end))
    IN  IF Raised(r) THEN PyNone ELSE r.returned

(***************************************************************************)
(* The inputs of the model: request bodies, credentials, oracle replies.   *)
(***************************************************************************)
\* os.getenv("API_KEY")
API_KEY == PyStr("secret-key")

\* the x-api-key header: the key, another key, or no header (Header(None))
ApiKeys == { API_KEY, PyStr("wrong-key"), PyNone }

MsgUpi == <<"a","@","u">>
MsgLink == <<"h","t","t","p",":","/","/","x">>
MsgUpiAndLink == <<"a","@","u"," ","h","t","t","p",":","/","/","x">>
MsgPhone == <<"9","8","7","6","5","4","3","2","1","0">>

\* the values of data["message"]; an empty str and a number are not texts
\* the handler can analyse
MessageValues ==
    { PyText(m) : m \in {MsgPhone, MsgUpi, MsgLink, MsgUpiAndLink} }
        \cup { PyText(<< >>), PyInt(5) }

\* the values of data["conversation_id"]; a list cannot key a dict
ConversationIds == { PyStr("default"), PyStr("s1"), PyList(<< >>) }

\* the request bodies: each of the two keys present or absent
Bodies ==
    { EmptyDict }
        \cup { [message |-> m] : m \in MessageValues }
        \cup { [conversation_id |-> c] : c \in ConversationIds }
        \cup { [message |-> m, conversation_id |-> c] :
                 m \in MessageValues, c \in ConversationIds }

\* the entities an oracle reports: each a str or null
AiEntities ==
    PyDict([ upi_id |-> PyStr("a@u"), bank_account |-> PyNone,
             ifsc |-> PyNone, phone_number |-> PyNone,
             phishing_link |-> PyNone ])

\* the members of an object with the five fields the prompt asks for
FullObject(is_scam, scam_type, honeypot_response) ==
    << Member("is_scam", PyBool(is_scam)),
       Member("scam_type", scam_type),
       Member("confidence", PyFloat(9)),
       Member("honeypot_response", honeypot_response),
       Member("extracted_entities", AiEntities) >>

\* the objects an oracle writes, as sequences of members
OracleObjects ==
    { FullObject(TRUE, PyStr("Bank Fraud"), PyNone),
      FullObject(TRUE, PyStr("Phishing"), PyStr("Tell me more.")),
      FullObject(TRUE, PyStr("Crypto Scam"), PyNone),
      FullObject(TRUE, PyList(<<"Phishing", "UPI Fraud">>), PyNone),
      FullObject(FALSE, PyStr("Not Scam"), PyNone),
      FullObject(FALSE, PyStr("Not Scam"), PyStr("Tell me more.")),
      << Member("is_scam", PyBool(TRUE)) >>,
      << >> }

\* the texts an oracle replies: an object alone, an object inside prose or
\* a markdown fence, and texts that hold no object
OracleTexts ==
    { <<LBrace>> \o o \o <<RBrace>> : o \in OracleObjects }
        \cup { <<Prose, LBrace>> \o o \o <<RBrace, Prose>> :
                 o \in { FullObject(TRUE, PyStr("Bank Fraud"), PyNone) } }
        \cup { << >>, <<Prose>>, <<Prose, RBrace>>, <<RBrace, LBrace>>,
               <<LBrace, Member("is_scam", PyBool(TRUE))>>,
               <<LBrace, Prose, RBrace>>,
               <<LBrace, RBrace, Prose, LBrace, RBrace>> }

\* a response object: its text, or a response whose .text raises
TextResponse(text) == [text |-> text]
BlockedResponse == [blocked |-> TRUE]

\* model.generate_content(...): it raises, or returns a response (None
\* stands for a falsy response)
OracleOutcomes ==
    { Raise([type |-> "DeadlineExceeded", text |-> "504 Deadline Exceeded"]) }
        \cup { Return(PyNone), Return(BlockedResponse) }
        \cup { Return(TextResponse(x)) : x \in OracleTexts }

\* lines 135-137 calling again when the call raised
attempts_retry(outcome) == IF Raised(outcome) THEN 2 ELSE 1

\* lines 135-137: the number of calls of generate_content, whatever the
\* call returns or raises
attempts(outcome) == 1

\* response.text if response else ""
ai_text_of(response) ==
    IF IsA(response, "none") THEN Return(<< >>)
    ELSE IF IsA(response, "blocked")
    THEN Raise([type |-> "ValueError", text |-> "response.text is not available"])
    ELSE Return(response.text)

(***************************************************************************)
(* The pieces of analyze that compute without touching shared state.       *)
(***************************************************************************)
\* line 120 letting a request without the header through
key_mismatch_header_only(x_api_key) ==
    x_api_key # API_KEY /\ x_api_key # PyNone

\* line 120: x_api_key != API_KEY
key_mismatch(x_api_key) == x_api_key # API_KEY

\* line 124 without the default identifier
session_id_of_no_default(data) == get(data, "conversation_id", PyNone)

\* line 124: session_id = data.get("conversation_id", "default")
session_id_of(data) == get(data, "conversation_id", PyStr("default"))

\* line 121
InvalidKey == [type |-> "HTTPException", text |-> "401: Invalid API Key"]
\* line 127
MessageRequired == [type |-> "HTTPException", text |-> "400: Message required"]
\* line 136: str + a value that is not a str
ConcatError == [type |-> "TypeError", text |-> "can only concatenate str"]
\* lines 129, 130: a dict key that cannot be hashed
KeyTypeError == [type |-> "TypeError", text |-> "unhashable type"]

\* line 145
is_scam_of(extracted) ==
    Truthy(extracted.upi_id) \/ Truthy(extracted.phishing_link)

\* line 146 with the two categories tested in the other order
scam_type_of_upi_first(extracted) ==
    IF Truthy(extracted.upi_id) THEN PyStr("Bank Fraud")
    ELSE PyStr("Phishing")

\* line 146
scam_type_of(extracted) ==
    IF Truthy(extracted.phishing_link) THEN PyStr("Phishing")
    ELSE PyStr("Bank Fraud")

\* line 149 without its condition
fallback_step_always(is_scam) == 1

\* line 149 adding nothing
fallback_step_never(is_scam) == 0

\* line 149: the amount added to the stage on the fallback path
fallback_step(is_scam) == IF is_scam THEN 1 ELSE 0

\* line 166: the amount added to the stage on the AI path
ai_step == 1

\* the fixed annotation of lines 157 and 168
ETHICAL_NOTE == PyStr("Simulated environment only")

\* lines 151-158
FallbackResult(is_scam, scam_type, honeypot, extracted) ==
    [ is_scam            |-> PyBool(is_scam),
      scam_type          |-> IF is_scam THEN scam_type ELSE PyStr("Not Scam"),
      confidence         |-> PyFloat(IF is_scam THEN 7 ELSE 2),
      honeypot_response  |-> honeypot,
      extracted_entities |-> PyDict(extracted),
      ethical_note       |-> ETHICAL_NOTE ]

\* lines 172-179 with the error description left out of the annotation
SafeModeResult_fixed_note(e) ==
    [ is_scam            |-> PyBool(TRUE),
      scam_type          |-> PyStr("System Safe Mode"),
      confidence         |-> PyFloat(4),
      honeypot_response  |-> PyStr("Please repeat the message."),
      extracted_entities |-> PyDict(EmptyDict),
      ethical_note       |-> ETHICAL_NOTE ]

\* lines 172-179
SafeModeResult(e) ==
    [ is_scam            |-> PyBool(TRUE),
      scam_type          |-> PyStr("System Safe Mode"),
      confidence         |-> PyFloat(4),
      honeypot_response  |-> PyStr("Please repeat the message."),
      extracted_entities |-> PyDict(EmptyDict),
      ethical_note       |-> PyFStr(<<"Error handled safely: ", e.text>>) ]

(***************************************************************************)
(* State.                                                                  *)
(***************************************************************************)
VARIABLES
    sequential,         \* TRUE when the requests are handled one at a time
    conversation_store, \* the dict: conversation identifier -> session dict
    heap,               \* the session dicts, in order of creation
    pc,                 \* per request: the line its handler is at
    frame,              \* per request: the header and the handler's locals
    served,             \* history: per conversation, the stage each scam
                        \* verdict answered so far chose its line with, in
                        \* order of return
    category,           \* history: per conversation, the scam_type of the
                        \* scam verdicts answered so far (Mixed if several)
    quiet,              \* history: per conversation, whether a not-scam
                        \* verdict was answered since the last scam verdict
    last,               \* history: per conversation, the honeypot line of
                        \* the last scam verdict
    answer              \* history: the answer the caller receives in this
                        \* step, NoAnswer when the step returns none

vars == <<sequential, conversation_store, heap, pc, frame,
          served, category, quiet, last, answer>>

Requests == DOMAIN pc

\* the locals of a handler that has not run yet
NewFrame ==
    [ x_api_key  |-> PyNone,
      message    |-> PyNone,
      session_id |-> PyNone,
      session    |-> 0,         \* the index of the session dict in heap
      ai_json    |-> PyNone,
      extracted  |-> EmptyDict,
      is_scam    |-> FALSE,
      scam_type  |-> PyNone,
      honeypot   |-> PyNone,
      stage_arg  |-> 0,         \* the stage passed to get_honeypot
      loaded     |-> 0,         \* the stage loaded by +=
      e          |-> PyNone,    \* the exception caught at line 171
      reply      |-> PyNone,    \* history: the object safe_json returned
      oracle     |-> "not called", \* history: what the oracle call did
      calls      |-> 0,         \* history: the number of oracle calls
      stage_in   |-> 0,         \* history: the stage found at line 132
      omitted    |-> FALSE ]    \* history: the body had no conversation_id

NoAnswer == [request |-> 0]

\* the category of a conversation whose scam verdicts were not all alike
Mixed == [mixed |-> TRUE]

\* the stage the conversation table holds for an identifier
StageOf(id) == heap[conversation_store[id]].stage

Init ==
    /\ sequential = FALSE
    /\ conversation_store = EmptyDict
    /\ heap = << >>
    /\ pc = [r \in 1..MaxRequests |-> "idle"]
    /\ frame = [r \in 1..MaxRequests |-> NewFrame]
    /\ served = EmptyDict
    /\ category = EmptyDict
    /\ quiet = EmptyDict
    /\ last = EmptyDict
    /\ answer = NoAnswer

InitSeq ==
    /\ sequential = TRUE
    /\ conversation_store = EmptyDict
    /\ heap = << >>
    /\ pc = [r \in 1..MaxSeqRequests |-> "idle"]
    /\ frame = [r \in 1..MaxSeqRequests |-> NewFrame]
    /\ served = EmptyDict
    /\ category = EmptyDict
    /\ quiet = EmptyDict
    /\ last = EmptyDict
    /\ answer = NoAnswer

Goto(r, line) == pc' = [pc EXCEPT ![r] = line]
Locals(r, f) == frame' = [frame EXCEPT ![r] = f]

\* the handler, its locals being f and the session dicts being h, returns
\* result: the caller receives it and the request ends
RespondWith(r, f, path, result, h) ==
    LET id == f.session_id
        verdict == path # "except"
        scam == verdict /\ Truthy(get(result, "is_scam", PyNone))
        scam_type == get(result, "scam_type", PyNone)
        run == get(category, id, PyNone)
    IN  /\ answer' = [ request    |-> r,
                     path       |-> path,
                     result     |-> result,
                     x_api_key  |-> f.x_api_key,
                     message    |-> f.message,
                     session_id |-> id,
                     reply      |-> f.reply,
                     e          |-> f.e,
                     oracle     |-> f.oracle,
                     calls      |-> f.calls,
                     stage_in   |-> f.stage_in,
                     stage_arg  |-> f.stage_arg,
                     stage_out  |-> IF f.session = 0 THEN 0
                                    ELSE h[f.session].stage,
                     nth        |-> Len(get(served, id, << >>)),
                     run        |-> run,
                     quiet      |-> get(quiet, id, FALSE),
                     omitted    |-> f.omitted,
                     last       |-> get(last, id, PyNone) ]
        /\ served' =
             IF scam
             THEN setitem(served, id, Append(get(served, id, << >>), f.stage_arg))
             ELSE served
        /\ category' =
             IF scam
             THEN setitem(category, id,
                          IF run = PyNone \/ run = scam_type THEN scam_type
                          ELSE Mixed)
             ELSE category
        /\ last' =
             IF scam
             THEN setitem(last, id, get(result, "honeypot_response", PyNone))
             ELSE last
        /\ quiet' =
             IF verdict
             THEN setitem(quiet, id, ~scam)
             ELSE quiet
        /\ Goto(r, "done")
        /\ Locals(r, NewFrame)

Respond(r, f, path, result) == RespondWith(r, f, path, result, heap)

\* raise e inside the try block, the locals being f; lines 171-179: the
\* handler of the try block answers with the Safe Mode result
RaiseIn(r, f, e) ==
    Respond(r, [f EXCEPT !.e = e], "except", SafeModeResult(e))

\* a step that returns nothing to the caller
Continue(r, f, line) ==
    /\ Locals(r, f)
    /\ Goto(r, line)
    /\ answer' = NoAnswer
    /\ UNCHANGED <<served, category, quiet, last>>

(***************************************************************************)
(* The handler, one action per step that reads or writes shared state      *)
(* (the conversation table, a session dict, the oracle), each with the     *)
(* local computation that follows it.  A step that raises is answered by   *)
(* the except clause of line 171, a step that reaches a return statement   *)
(* answers.                                                                *)
(***************************************************************************)
\* a request arrives and FastAPI runs the handler on a worker thread;
\* lines 119-127: the credential, the body's two keys, the message
Receive(r) ==
    /\ pc[r] = "idle"
    /\ IF r = 1 THEN TRUE ELSE pc[r - 1] # "idle"
    /\ sequential => \A q \in Requests : pc[q] \in {"idle", "done"}
    /\ \E x_api_key \in ApiKeys :
         LET f == [NewFrame EXCEPT !.x_api_key = x_api_key]
         IN  IF key_mismatch(x_api_key) THEN RaiseIn(r, f, InvalidKey)
             ELSE \E data \in Bodies :
               LET message == get(data, "message", PyNone)
                   session_id == session_id_of(data)
                   g == [f EXCEPT !.message = message,
                                  !.session_id = session_id,
                                  !.omitted = "conversation_id" \notin DOMAIN data]
               IN  IF ~Truthy(message) THEN RaiseIn(r, g, MessageRequired)
                   ELSE Continue(r, g, "L129")
    /\ UNCHANGED <<sequential, conversation_store, heap>>

\* line 129: session_id not in conversation_store
L129(r) ==
    /\ pc[r] = "L129"
    /\ LET f == frame[r]
       IN  IF Unhashable(f.session_id) THEN RaiseIn(r, f, KeyTypeError)
           ELSE Continue(r, f, IF f.session_id \in DOMAIN conversation_store
                               THEN "L132" ELSE "L130")
    /\ UNCHANGED <<sequential, conversation_store, heap>>

\* line 130: conversation_store[session_id] = {"stage": 0}
L130(r) ==
    /\ pc[r] = "L130"
    /\ heap' = Append(heap, [stage |-> 0])
    /\ conversation_store' =
           setitem(conversation_store, frame[r].session_id, Len(heap) + 1)
    /\ Continue(r, frame[r], "L132")
    /\ UNCHANGED sequential

\* line 132: session = conversation_store[session_id]
L132(r) ==
    /\ pc[r] = "L132"
    /\ LET session == conversation_store[frame[r].session_id]
       IN  Continue(r, [frame[r] EXCEPT !.session = session,
                                        !.stage_in = heap[session].stage],
                    "L134")
    /\ UNCHANGED <<sequential, conversation_store, heap>>

\* lines 143-146: the rule-based verdict, extracted being
\* regex_extract(message)
Fallback(r, f, extracted) ==
    Continue(r, [f EXCEPT !.extracted = extracted,
                          !.is_scam = is_scam_of(extracted),
                          !.scam_type = scam_type_of(extracted)],
             "L148")

\* lines 168-169 raising where they annotate the oracle's object
ReturnAiJson_failing(r, f, h) ==
    LET e == [type |-> "TypeError", text |-> "item assignment"]
    IN  RespondWith(r, [f EXCEPT !.e = e], "except", SafeModeResult(e), h)

\* lines 168-169: the AI path annotates the oracle's object and returns it
ReturnAiJson(r, f, h) ==
    RespondWith(r, f, "ai",
                setitem(f.ai_json.dict, "ethical_note", ETHICAL_NOTE), h)

\* lines 134-146 and 161: the prompt, the oracle call, safe_json, and either
\* the rule-based verdict or the test of the oracle's is_scam
L134(r) ==
    /\ pc[r] = "L134"
    /\ LET f == frame[r]
           \* line 144, evaluated by the fallback only
           extracted == regex_extract(f.message.text)
       IN  IF ~IsA(f.message, "text") THEN RaiseIn(r, f, ConcatError)
           ELSE \E outcome \in OracleOutcomes :
             LET g == [f EXCEPT !.calls = f.calls + attempts(outcome)]
                 ai_text == ai_text_of(outcome.returned)
                 ai_json == safe_json(ai_text.returned)
                 h == [g EXCEPT !.oracle = "replied", !.ai_json = ai_json,
                                !.reply = ai_json]
             IN  IF Raised(outcome)
                 THEN RaiseIn(r, [g EXCEPT !.oracle = "raised"], outcome.raised)
                 ELSE IF Raised(ai_text)
                 THEN RaiseIn(r, [g EXCEPT !.oracle = "no text"], ai_text.raised)
                 ELSE IF ~Truthy(ai_json) THEN Fallback(r, h, extracted)
                 ELSE IF Truthy(get(ai_json.dict, "is_scam", PyNone))
                 THEN Continue(r, h, "L162")
                 ELSE ReturnAiJson(r, h, heap)
    /\ UNCHANGED <<sequential, conversation_store, heap>>

\* line 148: the fallback path reads the stage and picks the line
L148(r) ==
    /\ pc[r] = "L148"
    /\ LET f == frame[r]
           stage == heap[f.session].stage
           line == get_honeypot(f.scam_type, stage)
       IN  IF ~f.is_scam THEN Continue(r, [f EXCEPT !.honeypot = PyNone], "L149")
           ELSE IF Raised(line) THEN RaiseIn(r, f, line.raised)
           ELSE Continue(r, [f EXCEPT !.honeypot = line.returned,
                                      !.stage_arg = stage],
                         "L149")
    /\ UNCHANGED <<sequential, conversation_store, heap>>

\* line 149, first half of +=: load session["stage"]
L149(r) ==
    /\ pc[r] = "L149"
    /\ Continue(r, [frame[r] EXCEPT !.loaded = heap[frame[r].session].stage],
                "L149_store")
    /\ UNCHANGED <<sequential, conversation_store, heap>>

\* line 149, second half of +=: store the sum into session["stage"];
\* lines 151-158: the fallback path returns
L149_store(r) ==
    /\ pc[r] = "L149_store"
    /\ LET f == frame[r]
           h == [heap EXCEPT ![f.session].stage =
                     f.loaded + fallback_step(f.is_scam)]
       IN  /\ heap' = h
           /\ RespondWith(r, f, "fallback",
                          FallbackResult(f.is_scam, f.scam_type, f.honeypot,
                                         f.extracted),
                          h)
    /\ UNCHANGED <<sequential, conversation_store>>

\* lines 162-165: the AI path reads the stage and picks the line
L162(r) ==
    /\ pc[r] = "L162"
    /\ LET f == frame[r]
           stage == heap[f.session].stage
           line == get_honeypot(get(f.ai_json.dict, "scam_type", PyStr("Bank Fraud")),
                                stage)
       IN  IF Raised(line) THEN RaiseIn(r, f, line.raised)
           ELSE Continue(r, [f EXCEPT
                      !.ai_json = PyDict(setitem(f.ai_json.dict,
                                         "honeypot_response", line.returned)),
                      !.stage_arg = stage],
                    "L166")
    /\ UNCHANGED <<sequential, conversation_store, heap>>

\* line 166, first half of +=: load session["stage"]
L166(r) ==
    /\ pc[r] = "L166"
    /\ Continue(r, [frame[r] EXCEPT !.loaded = heap[frame[r].session].stage],
                "L166_store")
    /\ UNCHANGED <<sequential, conversation_store, heap>>

\* line 166, second half of +=: store the sum into session["stage"];
\* lines 168-169: the AI path returns
L166_store(r) ==
    /\ pc[r] = "L166_store"
    /\ LET f == frame[r]
           h == [heap EXCEPT ![f.session].stage = f.loaded + ai_step]
       IN  /\ heap' = h
           /\ ReturnAiJson(r, f, h)
    /\ UNCHANGED <<sequential, conversation_store>>

Next ==
    \/ \E r \in Requests : Receive(r)
    \/ \E r \in Requests : L129(r)
    \/ \E r \in Requests : L130(r)
    \/ \E r \in Requests : L132(r)
    \/ \E r \in Requests : L134(r)
    \/ \E r \in Requests : L148(r)
    \/ \E r \in Requests : L149(r)
    \/ \E r \in Requests : L149_store(r)
    \/ \E r \in Requests : L162(r)
    \/ \E r \in Requests : L166(r)
    \/ \E r \in Requests : L166_store(r)

\* requests may overlap: each runs on its own worker thread
Spec == Init /\ [][Next]_vars

\* requests are handled one at a time
SpecSeq == InitSeq /\ [][Next]_vars

(***************************************************************************)
(* Properties.                                                             *)
(***************************************************************************)
\* this step returned an answer to a caller
Answered == answer.request # 0

\* the answer is a verdict of one of the two classifiers (not Safe Mode)
Verdict == Answered /\ answer.path \in {"ai", "fallback"}

\* the answer is a scam verdict: the request chose a line and moved the stage
ScamVerdict == Verdict /\ Truthy(get(answer.result, "is_scam", PyNone))

\* no request is being handled
Quiescent == \A r \in Requests : pc[r] \in {"idle", "done"}

\* the six fields of an AnalysisResult
ResultFields == { "is_scam", "scam_type", "confidence", "honeypot_response",
                  "extracted_entities", "ethical_note" }

\* C1: in a conversation handled one request at a time whose scam verdicts
\* all have the same category c, a category with a persona script, the n-th
\* scam verdict (counting from 0) carries line n mod len(script) of c's
\* script: script[0], script[1], ..., wrapping around.
C1_CyclicScript ==
    ScamVerdict =>
        LET c == get(answer.result, "scam_type", PyNone)
        IN  (/\ IsA(c, "str")
             /\ c.str \in DOMAIN PERSONAS
             /\ answer.run \in {PyNone, c})
            => answer.result.honeypot_response =
                 PyStr(PERSONAS[c.str][(answer.nth % Len(PERSONAS[c.str])) + 1])

\* the fourth scam verdict of a conversation that is all Bank Fraud: the
\* script has wrapped around
C1_Witness ==
    /\ ScamVerdict
    /\ answer.nth = 3
    /\ answer.run = PyStr("Bank Fraud")
    /\ get(answer.result, "scam_type", PyNone) = PyStr("Bank Fraud")

\* C2: whatever the interleaving, when two or more requests of one
\* conversation were answered with a scam verdict, no two of them chose
\* their line with the same stage, and once every request has returned the
\* stage of the conversation equals the number of those requests.
C2_DistinctStages ==
    \A id \in DOMAIN served :
        Len(served[id]) >= 2 =>
            /\ \A i, j \in 1..Len(served[id]) :
                   i # j => served[id][i] # served[id][j]
            /\ Quiescent => StageOf(id) = Len(served[id])

\* C3: when the oracle call raises, the answer is the rule-based verdict for
\* the message, with the fixed annotation.
C3_OracleErrorFallsBack ==
    (Answered /\ answer.oracle = "raised") =>
        LET extracted == regex_extract(answer.message.text)
            scam == is_scam_of(extracted)
        IN  /\ answer.result.is_scam = PyBool(scam)
            /\ answer.result.scam_type =
                 (IF scam THEN scam_type_of(extracted) ELSE PyStr("Not Scam"))
            /\ answer.result.ethical_note = PyStr("Simulated environment only")

\* C4: a request answered with a not-scam verdict, on either path, leaves
\* the stage of its conversation as it found it; so a scam verdict chooses
\* its line with the number of scam verdicts answered before it, however
\* many not-scam requests came in between.
C4_NonScamKeepsStage ==
    /\ (Verdict /\ ~ScamVerdict) =>
          /\ answer.stage_out = answer.stage_in
          /\ StageOf(answer.session_id) = answer.stage_in
    /\ ScamVerdict => answer.stage_arg = answer.nth

\* a scam verdict that is not the first of its conversation and follows a
\* not-scam verdict answered since the scam verdict before it
C4_Witness ==
    /\ ScamVerdict
    /\ answer.nth >= 1
    /\ answer.quiet

\* C5: every answer carries the six fields of an AnalysisResult.
C5_SixFields ==
    Answered => DOMAIN answer.result = ResultFields

\* C6: when the oracle's reply decodes to an object that lacks is_scam,
\* scam_type or confidence, the answer is the rule-based verdict.
C6_IncompleteObjectFallsBack ==
    (/\ Answered
     /\ IsA(answer.reply, "dict")
     /\ ~({"is_scam", "scam_type", "confidence"} \subseteq DOMAIN answer.reply.dict))
    => answer.path = "fallback"

\* C7: in every answer, honeypot_response is null exactly when is_scam is
\* false.
C7_HoneypotIffScam ==
    Answered =>
        (get(answer.result, "honeypot_response", PyNone) = PyNone
            <=> get(answer.result, "is_scam", PyNone) = PyBool(FALSE))

\* C8: a request in which a step raised is answered, and exactly by the Safe
\* Mode result, whose annotation embeds the description of the error; a
\* request in which nothing raised is never answered by it.
C8_SafeMode ==
    Answered =>
         /\ answer.e # PyNone <=> answer.path = "except"
         /\ answer.e # PyNone =>
              answer.result =
                [ is_scam            |-> PyBool(TRUE),
                  scam_type          |-> PyStr("System Safe Mode"),
                  confidence         |-> PyFloat(4),
                  honeypot_response  |-> PyStr("Please repeat the message."),
                  extracted_entities |-> PyDict(EmptyDict),
                  ethical_note       |->
                      PyFStr(<<"Error handled safely: ", answer.e.text>>) ]

\* an error raised mid-pipeline, after the oracle replied and the session
\* was looked up, answered by the Safe Mode result
C8_Witness ==
    /\ Answered
    /\ answer.path = "except"
    /\ answer.oracle = "replied"
    /\ answer.e.type = "TypeError"

\* C9: on the fallback path the verdict depends only on whether a upi_id
\* and whether a phishing_link was extracted: scam iff either; Phishing
\* whenever a link was, Bank Fraud when only a UPI id was, Not Scam when
\* neither was; confidence 0.7 if scam and 0.2 otherwise.
C9_RuleVerdict ==
    (Answered /\ answer.path = "fallback") =>
        LET entities == answer.result.extracted_entities.dict
            upi == Len(entities.upi_id.list) > 0
            link == Len(entities.phishing_link.list) > 0
        IN  /\ answer.result.is_scam = PyBool(upi \/ link)
            /\ answer.result.scam_type =
                 PyStr(IF link THEN "Phishing"
                       ELSE IF upi THEN "Bank Fraud" ELSE "Not Scam")
            /\ answer.result.confidence = PyFloat(IF upi \/ link THEN 7 ELSE 2)

\* a fallback verdict for a message with both a UPI id and a link
C9_Witness ==
    /\ Answered
    /\ answer.path = "fallback"
    /\ Len(answer.result.extracted_entities.dict.upi_id.list) > 0
    /\ Len(answer.result.extracted_entities.dict.phishing_link.list) > 0
    /\ answer.result.scam_type = PyStr("Phishing")

\* C10: the stage the conversation table holds for an identifier starts at
\* 0 on first reference and never decreases afterwards, under every
\* interleaving.
C10_StageNeverDecreases ==
    [][ /\ \A id \in DOMAIN conversation_store :
              /\ id \in DOMAIN conversation_store'
              /\ StageOf(id)' >= StageOf(id)
        /\ \A id \in DOMAIN conversation_store' :
              id \notin DOMAIN conversation_store => StageOf(id)' = 0 ]_vars

\* C11 as stated: between its arrival and its answer a request handled alone
\* changes the stage of its conversation by 1 when the returned result has
\* is_scam = true, and by 0 otherwise.
C11_StagePlusOneIffIsScam ==
    Answered =>
        answer.stage_out - answer.stage_in =
            (IF get(answer.result, "is_scam", PyNone) = PyBool(TRUE)
             THEN 1 ELSE 0)

\* C11 amended: the change is 1 when the result is a scam verdict of a
\* classifier (AI or rule-based), and 0 otherwise; the Safe Mode result,
\* whose is_scam is true, is among the otherwise.
C11_StagePlusOneIffScamVerdict ==
    Answered =>
        answer.stage_out - answer.stage_in = (IF ScamVerdict THEN 1 ELSE 0)

\* a Safe Mode result for a conversation that is already at stage 1 or more
C11_Witness ==
    /\ Answered
    /\ answer.path = "except"
    /\ answer.result.is_scam = PyBool(TRUE)
    /\ answer.stage_in >= 1
    /\ answer.stage_out = answer.stage_in

\* C12: when the oracle's verdict is scam and its category is a string with
\* no persona script, the request is answered on the AI path and its honeypot
\* line is the Bank Fraud script's line at stage mod len.
C12_UnknownCategoryAsBankFraud ==
    (/\ Answered
     /\ IsA(answer.reply, "dict")
     /\ Truthy(get(answer.reply.dict, "is_scam", PyNone))
     /\ LET c == get(answer.reply.dict, "scam_type", PyNone)
        IN  IsA(c, "str") /\ c.str \notin DOMAIN PERSONAS)
    => /\ answer.path = "ai"
       /\ answer.result.honeypot_response =
            PyStr(PERSONAS["Bank Fraud"]
                    [(answer.stage_arg % Len(PERSONAS["Bank Fraud"])) + 1])

\* C13: a request whose credential does not match, or whose message is
\* missing or empty, is never answered with an AnalysisResult body.
C13_PreValidationRejects ==
    (Answered /\ (answer.x_api_key # API_KEY \/ ~Truthy(answer.message)))
    => DOMAIN answer.result # ResultFields

\* C14: a request whose credential does not match is answered in the step
\* of its arrival, and that step calls no oracle, creates no conversation
\* record and changes no stage.
C14_UnauthorizedNeverReachesCore ==
    [][ (Answered' /\ answer'.x_api_key # API_KEY) =>
            /\ pc[answer'.request] = "idle"
            /\ answer'.calls = 0
            /\ answer'.oracle = "not called"
            /\ conversation_store' = conversation_store
            /\ heap' = heap ]_vars

\* a request with a wrong key answered while the default conversation is at
\* stage 1 or more
C14_Witness ==
    /\ Answered
    /\ answer.x_api_key = PyStr("wrong-key")
    /\ PyStr("default") \in DOMAIN conversation_store
    /\ StageOf(PyStr("default")) >= 1

\* C18: every answer that is a verdict (not the Safe Mode result) carries as
\* extracted_entities the output of regex_extract for the request's message,
\* on the AI path as on the fallback path.
C18_EntitiesAreExtracted ==
    Verdict =>
        get(answer.result, "extracted_entities", PyNone) =
            PyDict(regex_extract(answer.message.text))

\* C19: with requests handled one at a time, the k-th scam verdict of a
\* conversation (counting from 0, Safe Mode results not counted) whose
\* category has a persona script carries line k mod len of that script,
\* whatever the categories of the scam verdicts before it.
C19_OneStagePerConversation ==
    ScamVerdict =>
        LET c == get(answer.result, "scam_type", PyNone)
        IN  (IsA(c, "str") /\ c.str \in DOMAIN PERSONAS)
            => answer.result.honeypot_response =
                 PyStr(PERSONAS[c.str][(answer.nth % Len(PERSONAS[c.str])) + 1])

\* the second scam verdict of a conversation, Phishing after Bank Fraud: it
\* carries the second line of the Phishing script
C19_Witness ==
    /\ ScamVerdict
    /\ answer.nth = 1
    /\ answer.run = PyStr("Bank Fraud")
    /\ get(answer.result, "scam_type", PyNone) = PyStr("Phishing")
    /\ answer.result.honeypot_response = PyStr("Is this the official website?")

\* C15: with requests handled one at a time, a scam verdict that is not the
\* first of its conversation never carries the honeypot line of the scam
\* verdict before it, unless the line is that of a script of length 1.
C15_NeverSameLineTwice ==
    (ScamVerdict /\ answer.nth >= 1) =>
        \/ answer.result.honeypot_response # answer.last
        \/ \E c \in DOMAIN PERSONAS :
              /\ Len(PERSONAS[c]) = 1
              /\ answer.result.honeypot_response = PyStr(PERSONAS[c][1])

\* C16: with requests handled one at a time, a step that changes the stage
\* of a conversation is the step that returns a scam verdict for it, adds
\* exactly 1 and returns the honeypot line chosen with the stage before it;
\* a step that answers with the Safe Mode result changes no record and no
\* stage, and the request it ends leaves the stage as it found it.
C16_NoPartialUpdate ==
    [][ /\ \A id \in DOMAIN conversation_store :
              /\ id \in DOMAIN conversation_store'
              /\ StageOf(id)' # StageOf(id) =>
                    /\ ScamVerdict'
                    /\ answer'.session_id = id
                    /\ StageOf(id)' = StageOf(id) + 1
                    /\ answer'.result.honeypot_response =
                         get_honeypot(get(answer'.result, "scam_type",
                                          PyStr("Bank Fraud")),
                                      StageOf(id)).returned
        /\ (Answered' /\ answer'.path = "except") =>
              /\ conversation_store' = conversation_store
              /\ heap' = heap
              /\ answer'.stage_out = answer'.stage_in ]_vars

\* a request that fails after its verdict is known (the oracle said scam,
\* choosing the line raised), in a conversation already at stage 1 or more
C16_Witness ==
    /\ Answered
    /\ answer.path = "except"
    /\ IsA(answer.reply, "dict")
    /\ Truthy(get(answer.reply.dict, "is_scam", PyNone))
    /\ answer.stage_in >= 1
    /\ StageOf(answer.session_id) = answer.stage_in

\* C17 as stated: a request with the right credential and a message that is
\* neither missing nor empty makes exactly one oracle call, and every other
\* request makes none.
C17_OneCallIffPreValidated ==
    Answered =>
        answer.calls =
            (IF answer.x_api_key = API_KEY /\ Truthy(answer.message)
             THEN 1 ELSE 0)

\* C17 amended: no request makes more than one oracle call, whatever the
\* call returns or raises; a request makes one exactly when it has the right
\* credential, a conversation identifier that can key a dict and a message
\* that is a non-empty string.
C17_AtMostOneCall ==
    Answered =>
        /\ answer.calls \in {0, 1}
        /\ answer.calls = 1 <=>
              /\ answer.x_api_key = API_KEY
              /\ ~Unhashable(answer.session_id)
              /\ IsA(answer.message, "text")
              /\ Truthy(answer.message)

\* a request whose only oracle call raised
C17_Witness ==
    /\ Answered
    /\ answer.oracle = "raised"
    /\ answer.calls = 1

\* C20: a step of a request changes the stage of no conversation but the
\* one its conversation identifier names, and removes none; and a request
\* whose body has no conversation_id is handled under the identifier
\* "default", on the record and the stage the table holds under that key.
C20_ConversationsIsolated ==
    [][ /\ \A r \in Requests :
              pc'[r] # pc[r] =>
                  \A B \in DOMAIN conversation_store :
                      B # frame[r].session_id =>
                          /\ B \in DOMAIN conversation_store'
                          /\ StageOf(B)' = StageOf(B)
        /\ (Answered' /\ answer'.omitted) =>
              /\ answer'.session_id = PyStr("default")
              /\ Verdict' =>
                    /\ frame[answer'.request].session =
                         conversation_store[PyStr("default")]
                    /\ StageOf(PyStr("default"))' = answer'.stage_out ]_vars

\* a scam verdict for a request without conversation_id, not the first of
\* the default conversation, while conversation "s1" is at another stage
C20_Witness ==
    /\ ScamVerdict
    /\ answer.omitted
    /\ answer.nth >= 1
    /\ PyStr("s1") \in DOMAIN conversation_store
    /\ StageOf(PyStr("s1")) >= 1
    /\ StageOf(PyStr("s1")) # StageOf(PyStr("default"))

====
